---- MODULE Spec2Model ----
(***************************************************************************)
(* Model of the Scheduler Unit core of servers/su:                         *)
(*   - domain/scheduler.rs : ProcessScheduler::acquire_lock, fetch_values, *)
(*                           gen_hash_chain                                *)
(*   - domain/flows.rs     : init_schedulers, redirect_data_item           *)
(* The StoreClient and the code that calls acquire_lock are not part of    *)
(* the sources; they are modelled from the written specification.          *)
(***************************************************************************)
EXTENDS FiniteSets, Integers, Sequences, TLC

(***************************************************************************)
(* Bounds                                                                  *)
(***************************************************************************)
\* number of acquire_lock calls made in one run
MaxCalls == 3
\* number of ProcessScheduler rows the store may hold
MaxAssign == 3
\* largest wall-clock reading
MaxClock == 1

(***************************************************************************)
(* Sequencer: identifiers                                                  *)
(***************************************************************************)
\* concurrent tasks that call acquire_lock
Callers == {"c1", "c2"}
\* ids passed as `id` to acquire_lock
ProcIds == {"p1", "p2"}
\* ids passed as Some(message_id); "p2" is an id that is also a process id
MsgIds == {"m1", "m2", "p2"}
\* message_id = None
NoMsg == "none"
\* the task is in no call
NoId == "none"
\* no task holds the mutex
NoCaller == "nobody"

VARIABLES
    \* ---- scheduler.rs ----
    locks,      \* keys present in ProcessScheduler.locks (DashMap)
    info,       \* the ScheduleInfo behind each key
    mutex,      \* holder of the tokio Mutex behind each key
    messages,   \* Data Store: persisted messages, in insertion order
    now,        \* wall clock, milliseconds
    pc,         \* position of each calling task; "err_clock" and
                \* "err_store": its acquire_lock call returned that Err
    cid,        \* `id` argument of the task's current call
    cmsg,       \* `message_id` argument of the task's current call
    readStore,  \* whether the current call queried the Data Store
    own,        \* the tuple fetch_values returned to the task's call
    calls,      \* number of acquire_lock calls made so far
    \* ---- flows.rs ----
    mode,        \* Config.mode
    schedulers,  \* Data Store: Scheduler rows, in iteration order
    assignments, \* Data Store: ProcessScheduler rows, in insertion order
    rpc,         \* position of each redirect_data_item task
    rid,         \* id of the data item the task is assigning
    rmin,        \* the task's min_scheduler, after its increment
    rres,        \* what the task's last redirect_data_item call returned
    bpc,         \* position of init_schedulers
    bidx,        \* index of the entry init_schedulers is working on
    lookup       \* the redirect_process_id or redirect_tx_id call that has
                 \* returned, its arguments and its result, until the caller
                 \* has taken the result

seqVars == <<locks, info, mutex, messages, now, pc, cid, cmsg, readStore,
             own, calls>>

routerVars == <<mode, schedulers, assignments, rpc, rid, rmin, rres, bpc, bidx,
                lookup>>

vars == <<seqVars, routerVars>>

(***************************************************************************)
(* scheduler.rs                                                            *)
(***************************************************************************)
\* ScheduleInfo as created by or_insert_with
NewScheduleInfo == [epoch |-> 0, nonce |-> 0, timestamp |-> 0, hash_chain |-> ""]

\* base64url(sha256(previous_or_seed ++ message_id)): the digest is taken of
\* the concatenation of the two inputs and is collision free
gen_hash_chain(previous_or_seed, message_id) ==
    "h[" \o previous_or_seed \o message_id \o "]"

\* Data Store, get_latest_message(key): the message of process `key` that was
\* persisted last, as a sequence of length 0 or 1
get_latest_message(key) ==
    LET idx == {i \in 1..Len(messages) : messages[i].process_id = key}
    IN  IF idx = {} THEN <<>>
        ELSE <<messages[CHOOSE i \in idx : \A j \in idx : j <= i]>>

\* the key fetch_values hands to get_latest_message
LatestMessageKey(process_id, message_id) == message_id

\* fetch_values whose None arm yields the initial ScheduleInfo
fetch_values_blank(process_id, message_id_in, millis) ==
    IF message_id_in # NoMsg
    THEN LET latest_message ==
                 get_latest_message(LatestMessageKey(process_id, message_id_in))
         IN  IF Len(latest_message) > 0
             THEN [epoch      |-> latest_message[1].epoch,
                   nonce      |-> latest_message[1].nonce + 1,
                   hash_chain |-> gen_hash_chain(latest_message[1].hash_chain,
                                                 message_id_in),
                   timestamp  |-> millis]
             ELSE [epoch      |-> 0,
                   nonce      |-> 0,
                   hash_chain |-> gen_hash_chain(process_id, message_id_in),
                   timestamp  |-> millis]
    ELSE [epoch |-> 0, nonce |-> 0, hash_chain |-> "", timestamp |-> 0]

\* fetch_values, Ok paths
fetch_values(process_id, message_id_in, millis) ==
    IF message_id_in # NoMsg
    THEN LET latest_message ==
                 get_latest_message(LatestMessageKey(process_id, message_id_in))
         IN  IF Len(latest_message) > 0
             THEN LET previous_message == latest_message[1]
                  IN  [epoch      |-> previous_message.epoch,
                       nonce      |-> previous_message.nonce + 1,
                       hash_chain |-> gen_hash_chain(previous_message.hash_chain,
                                                     message_id_in),
                       timestamp  |-> millis]
             ELSE [epoch      |-> 0,
                   nonce      |-> 0,
                   hash_chain |-> gen_hash_chain(process_id, message_id_in),
                   timestamp  |-> millis]
    ELSE [epoch |-> 0, nonce |-> 0, hash_chain |-> "wont be used",
          timestamp |-> millis]

\* fetch_values queries the Data Store in the Some(message_id) arm only
StoreQueried(message_id_in) == message_id_in # NoMsg

\* one mutex for every process id
LockKeyGlobal(id) == "p1"

\* the DashMap key of a process id
LockKey(id) == id

\* positions of a task that is in no call
Returned == {"idle", "err_clock", "err_store"}

SeqInit ==
    /\ locks = {}
    /\ info = [k \in ProcIds |-> NewScheduleInfo]
    /\ mutex = [k \in ProcIds |-> NoCaller]
    /\ messages = <<>>
    /\ now = 0
    /\ pc = [c \in Callers |-> "idle"]
    /\ cid = [c \in Callers |-> NoId]
    /\ cmsg = [c \in Callers |-> NoMsg]
    /\ readStore = [c \in Callers |-> FALSE]
    /\ own = [c \in Callers |-> NewScheduleInfo]
    /\ calls = 0

\* ids of the messages that are persisted or being sequenced
UsedMessageIds ==
    {messages[i].message_id : i \in 1..Len(messages)}
    \cup {cmsg[c] : c \in Callers}

\* a task calls acquire_lock(id, message_id); a message id is not submitted
\* again once it is persisted or while it is being sequenced
Call(c, id, m) ==
    /\ pc[c] \in Returned
    /\ calls < MaxCalls
    /\ m # NoMsg => m \notin UsedMessageIds
    /\ calls' = calls + 1
    /\ pc' = [pc EXCEPT ![c] = "entry"]
    /\ cid' = [cid EXCEPT ![c] = id]
    /\ cmsg' = [cmsg EXCEPT ![c] = m]
    /\ readStore' = [readStore EXCEPT ![c] = FALSE]
    /\ UNCHANGED routerVars
    /\ UNCHANGED <<locks, info, mutex, messages, now, own>>

\* an insert that puts a new entry in place of the one that is there
EntryReplace(c) ==
    /\ pc[c] = "entry"
    /\ locks' = locks \cup {LockKey(cid[c])}
    /\ info' = [info EXCEPT ![LockKey(cid[c])] = NewScheduleInfo]
    /\ mutex' = [mutex EXCEPT ![LockKey(cid[c])] = NoCaller]
    /\ pc' = [pc EXCEPT ![c] = "lock"]
    /\ UNCHANGED routerVars
    /\ UNCHANGED <<messages, now, cid, cmsg, readStore, own, calls>>

\* acquire_lock: locks.entry(id).or_insert_with(..).value().clone(); a new
\* unlocked ScheduleInfo is inserted only when the key has no entry
Entry(c) ==
    /\ pc[c] = "entry"
    /\ locks' = locks \cup {LockKey(cid[c])}
    /\ info' = IF LockKey(cid[c]) \in locks THEN info
               ELSE [info EXCEPT ![LockKey(cid[c])] = NewScheduleInfo]
    /\ mutex' = IF LockKey(cid[c]) \in locks THEN mutex
                ELSE [mutex EXCEPT ![LockKey(cid[c])] = NoCaller]
    /\ pc' = [pc EXCEPT ![c] = "lock"]
    /\ UNCHANGED routerVars
    /\ UNCHANGED <<messages, now, cid, cmsg, readStore, own, calls>>

\* acquire_lock: locked_schedule_info.lock().await
Lock(c) ==
    /\ pc[c] = "lock"
    /\ mutex[LockKey(cid[c])] = NoCaller
    /\ mutex' = [mutex EXCEPT ![LockKey(cid[c])] = c]
    /\ pc' = [pc EXCEPT ![c] = "fetch"]
    /\ UNCHANGED routerVars
    /\ UNCHANGED <<locks, info, messages, now, cid, cmsg, readStore, own, calls>>

\* an Ok return that keeps the mutex locked
FetchOkHold(c) ==
    /\ pc[c] = "fetch"
    /\ own' = [own EXCEPT ![c] = fetch_values(cid[c], cmsg[c], now)]
    /\ info' = [info EXCEPT ![LockKey(cid[c])] = own'[c]]
    /\ readStore' = [readStore EXCEPT ![c] = StoreQueried(cmsg[c])]
    /\ pc' = [pc EXCEPT ![c] = "returned"]
    /\ UNCHANGED routerVars
    /\ UNCHANGED <<locks, mutex, messages, now, cid, cmsg, calls>>

\* acquire_lock: fetch_values(..).await returns Ok(vals), the four
\* assignments, the end of the scope (the guard is dropped), Ok(handle)
FetchOk(c) ==
    /\ pc[c] = "fetch"
    /\ own' = [own EXCEPT ![c] = fetch_values(cid[c], cmsg[c], now)]
    /\ info' = [info EXCEPT ![LockKey(cid[c])] = own'[c]]
    /\ readStore' = [readStore EXCEPT ![c] = StoreQueried(cmsg[c])]
    /\ mutex' = [mutex EXCEPT ![LockKey(cid[c])] = NoCaller]
    /\ pc' = [pc EXCEPT ![c] = "returned"]
    /\ UNCHANGED routerVars
    /\ UNCHANGED <<locks, messages, now, cid, cmsg, calls>>

\* an error return that keeps the mutex locked
FetchErrLeak(c, kind) ==
    /\ pc[c] = "fetch"
    /\ kind = "store" => StoreQueried(cmsg[c])
    /\ readStore' = [readStore EXCEPT ![c] = (kind = "store")]
    /\ pc' = [pc EXCEPT ![c] = "err_" \o kind]
    /\ cid' = [cid EXCEPT ![c] = NoId]
    /\ cmsg' = [cmsg EXCEPT ![c] = NoMsg]
    /\ UNCHANGED routerVars
    /\ UNCHANGED <<locks, info, mutex, messages, now, own, calls>>

\* acquire_lock: fetch_values(..).await returns Err, the call returns Err and
\* the guard is dropped; kind is the clock read or the Data Store read
FetchErr(c, kind) ==
    /\ pc[c] = "fetch"
    /\ kind = "store" => StoreQueried(cmsg[c])
    /\ readStore' = [readStore EXCEPT ![c] = (kind = "store")]
    /\ mutex' = [mutex EXCEPT ![LockKey(cid[c])] = NoCaller]
    /\ pc' = [pc EXCEPT ![c] = "err_" \o kind]
    /\ cid' = [cid EXCEPT ![c] = NoId]
    /\ cmsg' = [cmsg EXCEPT ![c] = NoMsg]
    /\ UNCHANGED routerVars
    /\ UNCHANGED <<locks, info, messages, now, own, calls>>

\* the message a caller builds from the ScheduleInfo it reads
BuiltMessage(process_id, message_id, schedule_info) ==
    [process_id |-> process_id, message_id |-> message_id,
     epoch |-> schedule_info.epoch, nonce |-> schedule_info.nonce,
     hash_chain |-> schedule_info.hash_chain]

\* the caller of acquire_lock: it locks the handle it was given, reads the
\* ScheduleInfo, persists its message (save_message) and lets go of the
\* handle; a timestamp-only caller and a failed save persist nothing
CallerSave(c, saved) ==
    /\ pc[c] = "returned"
    /\ mutex[LockKey(cid[c])] = NoCaller
    /\ messages' = IF saved /\ cmsg[c] # NoMsg
                   THEN Append(messages,
                               BuiltMessage(cid[c], cmsg[c], info[LockKey(cid[c])]))
                   ELSE messages
    /\ pc' = [pc EXCEPT ![c] = "idle"]
    /\ cid' = [cid EXCEPT ![c] = NoId]
    /\ cmsg' = [cmsg EXCEPT ![c] = NoMsg]
    /\ readStore' = [readStore EXCEPT ![c] = FALSE]
    /\ own' = [own EXCEPT ![c] = NewScheduleInfo]
    /\ UNCHANGED routerVars
    /\ UNCHANGED <<locks, info, mutex, now, calls>>

\* the wall clock advances
Tick ==
    /\ now < MaxClock
    /\ now' = now + 1
    /\ UNCHANGED routerVars
    /\ UNCHANGED <<locks, info, mutex, messages, pc, cid, cmsg, readStore, own,
                   calls>>

(***************************************************************************)
(* flows.rs: router mode                                                   *)
(***************************************************************************)
\* concurrent tasks that call redirect_data_item
Routers == {"r1", "r2"}
\* Config.ao_process_id
AoProcessId == "ao"
\* ids of data items and targets of messages
ItemIds == {"ao", "q1", "q2"}
\* the entries of the file at Config.scheduler_list_path
SchedulerList == <<"ua", "ub", "ua">>
\* what build() makes of the input: the Type tag ("None": no such tag), the
\* id and the target of the first item of the bundle
Items ==
    [type : {"Process"}, id : ItemIds, target : {""}]
    \cup [type : {"Message"}, id : {"msg"}, target : ItemIds]
    \cup [type : {"Other", "None"}, id : {"msg"}, target : {""}]

NoScheduler == [row_id |-> 0, url |-> "", process_count |-> 0]

NoLookup == [op |-> "none", id |-> NoId, hint |-> NoId, res |-> "none"]

\* positions of init_schedulers at which no run is under way: not started,
\* returned Ok, returned Err at the file, at a lookup, at an insert
BootDone == {"idle", "ok", "err_file", "err_lookup", "err_save"}

\* Data Store, get_process_scheduler(process_id): the first row of the
\* process, as a sequence of length 0 or 1
get_process_scheduler(process_id) ==
    LET idx == {i \in 1..Len(assignments) : assignments[i].process_id = process_id}
    IN  IF idx = {} THEN <<>>
        ELSE <<assignments[CHOOSE i \in idx : \A j \in idx : i <= j]>>

\* Data Store, get_scheduler(row_id), as a sequence of length 0 or 1
get_scheduler(row_id) ==
    SelectSeq(schedulers, LAMBDA s : s.row_id = row_id)

\* Data Store, get_scheduler_by_url(url): Ok, or Err(NotFound) when empty
get_scheduler_by_url(url) ==
    SelectSeq(schedulers, LAMBDA s : s.url = url)

\* Data Store, save_scheduler: the store assigns the row id
save_scheduler(scheduler) ==
    Append(schedulers, [scheduler EXCEPT !.row_id = Len(schedulers) + 1])

\* Data Store, update_scheduler: overwrites the row that has the row id
update_scheduler(scheduler) ==
    [i \in 1..Len(schedulers) |->
        IF schedulers[i].row_id = scheduler.row_id THEN scheduler
        ELSE schedulers[i]]

\* Data Store, save_process_scheduler
save_process_scheduler(process_scheduler) ==
    Append(assignments, process_scheduler)

\* an index of a minimum that is the last one among equals
MinByKeyLast(v) ==
    CHOOSE i \in 1..Len(v) :
        /\ \A j \in 1..Len(v) : v[i].process_count <= v[j].process_count
        /\ \A j \in (i+1)..Len(v) : v[i].process_count < v[j].process_count

\* Iterator::min_by_key(|s| s.process_count): the index of the first element
\* among those with the least process_count
MinByKey(v) ==
    CHOOSE i \in 1..Len(v) :
        /\ \A j \in 1..Len(v) : v[i].process_count <= v[j].process_count
        /\ \A j \in 1..(i-1) : v[i].process_count < v[j].process_count

\* redirect_data_item, the Message arm: Ok(None), Ok(Some(url)) or Err
RedirectMessage(target, ok) ==
    IF target = AoProcessId THEN "local"
    ELSE IF ~ok \/ Len(get_process_scheduler(target)) = 0 THEN "err_store"
    ELSE LET row == get_scheduler(get_process_scheduler(target)[1].scheduler_row_id)
         IN  IF Len(row) = 0 THEN "err_store" ELSE row[1].url

\* ProcessScheduler rows that are in the store or may still be saved
PendingAssign ==
    Len(assignments) + Cardinality({r \in Routers : rpc[r] # "idle"})

\* a router starts on an empty store; an instance in another mode may sit
\* on a store that holds router tables
RouterInit ==
    /\ mode \in {"router", "su"}
    /\ \/ schedulers = <<>> /\ assignments = <<>>
       \/ /\ mode = "su"
          /\ schedulers = <<[row_id |-> 1, url |-> "ua", process_count |-> 1]>>
          /\ assignments = <<[process_id |-> "q1", scheduler_row_id |-> 1]>>
    /\ rpc = [r \in Routers |-> "idle"]
    /\ rid = [r \in Routers |-> NoId]
    /\ rmin = [r \in Routers |-> NoScheduler]
    /\ rres = [r \in Routers |-> "none"]
    /\ bpc = "idle"
    /\ bidx = 0
    /\ lookup = NoLookup

\* a redirect_data_item that assigns whatever the mode and the id are
RedirectDataItemAlways(r, item, built, ok) ==
    /\ rpc[r] = "idle"
    /\ IF built /\ item.type = "Process"
       THEN /\ PendingAssign < MaxAssign
            /\ rpc' = [rpc EXCEPT ![r] = "get_all"]
            /\ rid' = [rid EXCEPT ![r] = item.id]
            /\ rres' = [rres EXCEPT ![r] = "none"]
       ELSE /\ rres' = [rres EXCEPT ![r] =
                   IF mode # "router" THEN "local"
                   ELSE IF ~built THEN "err_build"
                   ELSE IF item.type = "Message"
                        THEN RedirectMessage(item.target, ok)
                   ELSE "err_type"]
            /\ UNCHANGED <<rpc, rid>>
    /\ UNCHANGED <<mode, lookup, schedulers, assignments, rmin, bpc, bidx>>
    /\ UNCHANGED seqVars

\* redirect_data_item up to the load-balanced assignment: the mode check,
\* build (built: it succeeded), the Type tag, the native id, the Message arm
\* (ok: its store reads succeeded)
RedirectDataItem(r, item, built, ok) ==
    /\ rpc[r] = "idle"
    /\ IF mode = "router" /\ built /\ item.type = "Process" /\ item.id # AoProcessId
       THEN /\ PendingAssign < MaxAssign
            /\ rpc' = [rpc EXCEPT ![r] = "get_all"]
            /\ rid' = [rid EXCEPT ![r] = item.id]
            /\ rres' = [rres EXCEPT ![r] = "none"]
       ELSE /\ rres' = [rres EXCEPT ![r] =
                   IF mode # "router" THEN "local"
                   ELSE IF ~built THEN "err_build"
                   ELSE IF item.type = "Process" THEN "err_recreate"
                   ELSE IF item.type = "Message"
                        THEN RedirectMessage(item.target, ok)
                   ELSE "err_type"]
            /\ UNCHANGED <<rpc, rid>>
    /\ UNCHANGED <<mode, lookup, schedulers, assignments, rmin, bpc, bidx>>
    /\ UNCHANGED seqVars

\* a balancing step that returns Ok(None) on an empty registry
GetAllSchedulersLocal(r, ok) ==
    /\ rpc[r] = "get_all"
    /\ IF ok /\ Len(schedulers) > 0
       THEN LET min_scheduler == schedulers[MinByKey(schedulers)]
            IN  /\ rmin' = [rmin EXCEPT ![r] =
                       [min_scheduler EXCEPT !.process_count = @ + 1]]
                /\ rpc' = [rpc EXCEPT ![r] = "save_ps"]
                /\ UNCHANGED <<rid, rres>>
       ELSE /\ rres' = [rres EXCEPT ![r] =
                   IF ok THEN "local" ELSE "err_store"]
            /\ rpc' = [rpc EXCEPT ![r] = "idle"]
            /\ rid' = [rid EXCEPT ![r] = NoId]
            /\ UNCHANGED rmin
    /\ UNCHANGED <<mode, lookup, schedulers, assignments, bpc, bidx>>
    /\ UNCHANGED seqVars

\* redirect_data_item: get_all_schedulers()?, min_by_key, the increment of
\* the chosen element
GetAllSchedulers(r, ok) ==
    /\ rpc[r] = "get_all"
    /\ IF ok /\ Len(schedulers) > 0
       THEN LET min_scheduler == schedulers[MinByKey(schedulers)]
            IN  /\ rmin' = [rmin EXCEPT ![r] =
                       [min_scheduler EXCEPT !.process_count = @ + 1]]
                /\ rpc' = [rpc EXCEPT ![r] = "save_ps"]
                /\ UNCHANGED <<rid, rres>>
       ELSE /\ rres' = [rres EXCEPT ![r] =
                   IF ok THEN "err_balance" ELSE "err_store"]
            /\ rpc' = [rpc EXCEPT ![r] = "idle"]
            /\ rid' = [rid EXCEPT ![r] = NoId]
            /\ UNCHANGED rmin
    /\ UNCHANGED <<mode, lookup, schedulers, assignments, bpc, bidx>>
    /\ UNCHANGED seqVars

\* redirect_data_item: save_process_scheduler(&process_scheduler)?
SaveProcessScheduler(r, ok) ==
    /\ rpc[r] = "save_ps"
    /\ IF ok
       THEN /\ assignments' = save_process_scheduler(
                   [process_id |-> rid[r], scheduler_row_id |-> rmin[r].row_id])
            /\ rpc' = [rpc EXCEPT ![r] = "update"]
            /\ UNCHANGED <<rid, rmin, rres>>
       ELSE /\ rres' = [rres EXCEPT ![r] = "err_store"]
            /\ rpc' = [rpc EXCEPT ![r] = "idle"]
            /\ rid' = [rid EXCEPT ![r] = NoId]
            /\ rmin' = [rmin EXCEPT ![r] = NoScheduler]
            /\ UNCHANGED assignments
    /\ UNCHANGED <<mode, lookup, schedulers, bpc, bidx>>
    /\ UNCHANGED seqVars

\* redirect_data_item: update_scheduler(min_scheduler)?, Ok(Some(url))
UpdateScheduler(r, ok) ==
    /\ rpc[r] = "update"
    /\ schedulers' = IF ok THEN update_scheduler(rmin[r]) ELSE schedulers
    /\ rres' = [rres EXCEPT ![r] = IF ok THEN rmin[r].url ELSE "err_store"]
    /\ rpc' = [rpc EXCEPT ![r] = "idle"]
    /\ rid' = [rid EXCEPT ![r] = NoId]
    /\ rmin' = [rmin EXCEPT ![r] = NoScheduler]
    /\ UNCHANGED <<mode, lookup, assignments, bpc, bidx>>
    /\ UNCHANGED seqVars

\* init_schedulers moves on to the next entry of the list
NextEntry ==
    IF bidx < Len(SchedulerList)
    THEN bpc' = "lookup" /\ bidx' = bidx + 1
    ELSE bpc' = "ok" /\ bidx' = 0

\* init_schedulers: the file is opened, read and parsed (ok: all three
\* succeeded); it runs at server startup in router mode
InitSchedulers(ok) ==
    /\ mode = "router"
    /\ bpc \in BootDone
    /\ IF ok THEN NextEntry ELSE bpc' = "err_file" /\ bidx' = 0
    /\ UNCHANGED <<mode, lookup, schedulers, assignments, rpc, rid, rmin, rres>>
    /\ UNCHANGED seqVars

\* a lookup whose Ok arm inserts as well
LookupSchedulerInsertAlways(ok) ==
    /\ bpc = "lookup"
    /\ IF ~ok THEN bpc' = "err_lookup" /\ bidx' = 0
       ELSE bpc' = "save" /\ bidx' = bidx
    /\ UNCHANGED <<mode, lookup, schedulers, assignments, rpc, rid, rmin, rres>>
    /\ UNCHANGED seqVars

\* a lookup that takes every Err for NotFound
LookupSchedulerInsertOnError(ok) ==
    /\ bpc = "lookup"
    /\ IF ~ok \/ Len(get_scheduler_by_url(SchedulerList[bidx])) = 0
       THEN bpc' = "save" /\ bidx' = bidx
       ELSE NextEntry
    /\ UNCHANGED <<mode, lookup, schedulers, assignments, rpc, rid, rmin, rres>>
    /\ UNCHANGED seqVars

\* init_schedulers: get_scheduler_by_url(&entry.url) and the match on it
\* (ok: the store answered with a row or with NotFound)
LookupScheduler(ok) ==
    /\ bpc = "lookup"
    /\ IF ~ok THEN bpc' = "err_lookup" /\ bidx' = 0
       ELSE IF Len(get_scheduler_by_url(SchedulerList[bidx])) = 0
            THEN bpc' = "save" /\ bidx' = bidx
       ELSE NextEntry
    /\ UNCHANGED <<mode, lookup, schedulers, assignments, rpc, rid, rmin, rres>>
    /\ UNCHANGED seqVars

\* init_schedulers: save_scheduler(&scheduler)? in the NotFound arm
SaveScheduler(ok) ==
    /\ bpc = "save"
    /\ IF ok
       THEN /\ schedulers' = save_scheduler(
                   [row_id |-> 0, url |-> SchedulerList[bidx], process_count |-> 0])
            /\ NextEntry
       ELSE /\ bpc' = "err_save" /\ bidx' = 0
            /\ UNCHANGED schedulers
    /\ UNCHANGED <<mode, lookup, assignments, rpc, rid, rmin, rres>>
    /\ UNCHANGED seqVars

\* a redirect_process_id that looks the native id up like any other id
redirect_process_id_any(process_id, ok) ==
    IF mode # "router" THEN "local"
    ELSE IF process_id = NoId THEN "err_param"
    ELSE IF ~ok \/ Len(get_process_scheduler(process_id)) = 0 THEN "err_store"
    ELSE LET row == get_scheduler(
                        get_process_scheduler(process_id)[1].scheduler_row_id)
         IN  IF Len(row) = 0 THEN "err_store" ELSE row[1].url

\* redirect_process_id: "local" is Ok(None), a url is Ok(Some(url)), the rest
\* Err (ok: the store answered both reads)
redirect_process_id(process_id, ok) ==
    IF mode # "router" THEN "local"
    ELSE IF process_id = NoId THEN "err_param"
    ELSE IF process_id = AoProcessId THEN "local"
    ELSE IF ~ok \/ Len(get_process_scheduler(process_id)) = 0 THEN "err_store"
    ELSE LET row == get_scheduler(
                        get_process_scheduler(process_id)[1].scheduler_row_id)
         IN  IF Len(row) = 0 THEN "err_store" ELSE row[1].url

\* a resolution that tries the hint before the tx_id
redirect_tx_id_hint_first(tx_id, process_id, ok_first, ok) ==
    IF mode # "router" THEN "local"
    ELSE IF tx_id = AoProcessId THEN "local"
    ELSE LET process_to_query == IF process_id # NoId THEN process_id ELSE tx_id
         IN  IF ~ok \/ Len(get_process_scheduler(process_to_query)) = 0
             THEN "err_store"
             ELSE LET row == get_scheduler(
                         get_process_scheduler(process_to_query)[1].scheduler_row_id)
                  IN  IF Len(row) = 0 THEN "err_store" ELSE row[1].url

\* redirect_tx_id (ok_first: the store answered the first lookup of tx_id,
\* whose error of any kind sends the function to the hint; ok: it answered
\* the reads after it)
redirect_tx_id(tx_id, process_id, ok_first, ok) ==
    IF mode # "router" THEN "local"
    ELSE IF tx_id = AoProcessId THEN "local"
    ELSE LET first_err == ~ok_first \/ Len(get_process_scheduler(tx_id)) = 0
             process_to_query == IF first_err THEN process_id ELSE tx_id
         IN  IF first_err /\ process_id = NoId THEN "err_locate"
             ELSE IF ~ok \/ Len(get_process_scheduler(process_to_query)) = 0
                  THEN "err_store"
             ELSE LET row == get_scheduler(
                         get_process_scheduler(process_to_query)[1].scheduler_row_id)
                  IN  IF Len(row) = 0 THEN "err_store" ELSE row[1].url

\* a redirect_process_id call, from its entry to its return
RedirectProcessId(process_id, ok) ==
    /\ lookup = NoLookup
    /\ lookup' = [op |-> "process_id", id |-> process_id, hint |-> NoId,
                  res |-> redirect_process_id(process_id, ok)]
    /\ UNCHANGED <<mode, schedulers, assignments, rpc, rid, rmin, rres, bpc, bidx>>
    /\ UNCHANGED seqVars

\* a redirect_tx_id call, from its entry to its return
RedirectTxId(tx_id, process_id, ok_first, ok) ==
    /\ lookup = NoLookup
    /\ lookup' = [op |-> "tx_id", id |-> tx_id, hint |-> process_id,
                  res |-> redirect_tx_id(tx_id, process_id, ok_first, ok)]
    /\ UNCHANGED <<mode, schedulers, assignments, rpc, rid, rmin, rres, bpc, bidx>>
    /\ UNCHANGED seqVars

\* the caller of redirect_process_id or redirect_tx_id takes the result
LookupReturn ==
    /\ lookup # NoLookup
    /\ lookup' = NoLookup
    /\ UNCHANGED <<mode, schedulers, assignments, rpc, rid, rmin, rres, bpc, bidx>>
    /\ UNCHANGED seqVars

Init == SeqInit /\ RouterInit

Next ==
    \/ \E c \in Callers, id \in ProcIds, m \in MsgIds \cup {NoMsg} : Call(c, id, m)
    \/ \E c \in Callers : Entry(c)
    \/ \E c \in Callers : Lock(c)
    \/ \E c \in Callers : FetchOk(c)
    \/ \E c \in Callers, kind \in {"clock", "store"} : FetchErr(c, kind)
    \/ \E c \in Callers, saved \in BOOLEAN : CallerSave(c, saved)
    \/ Tick

\* the sequencer of a standalone instance
SuInit == Init /\ mode = "su" /\ schedulers = <<>>

\* concurrent callers of acquire_lock
Spec == SuInit /\ [][Next]_vars

FairNext ==
    \/ \E c \in Callers, id \in ProcIds, m \in {"m1", "m2", NoMsg} : Call(c, id, m)
    \/ \E c \in Callers : Entry(c)
    \/ \E c \in Callers : Lock(c)
    \/ \E c \in Callers : FetchOk(c)
    \/ \E c \in Callers, kind \in {"clock", "store"} : FetchErr(c, kind)
    \/ \E c \in Callers, saved \in BOOLEAN : CallerSave(c, saved)

\* the scheduling of the tasks: a task that can run is run (Entry, the end
\* of fetch_values, whose clock and Data Store reads return), and the tokio
\* Mutex hands the lock to its waiters in turn, so a task that finds the
\* mutex free again and again gets it
Fairness ==
    \A c \in Callers :
        /\ WF_vars(Entry(c))
        /\ SF_vars(Lock(c))
        /\ WF_vars(FetchOk(c) \/ \E kind \in {"clock", "store"} : FetchErr(c, kind))

\* concurrent callers of acquire_lock under fair scheduling, the clock at rest
FairSpec == SuInit /\ [][FairNext]_vars /\ Fairness

\* a call that starts when no other call is running
CallAlone(c, id, m) ==
    /\ \A d \in Callers \ {c} : pc[d] \in Returned
    /\ Call(c, id, m)

SerialNext ==
    \/ \E c \in Callers, id \in ProcIds, m \in MsgIds \cup {NoMsg} : CallAlone(c, id, m)
    \/ \E c \in Callers : Entry(c)
    \/ \E c \in Callers : Lock(c)
    \/ \E c \in Callers : FetchOk(c)
    \/ \E c \in Callers, kind \in {"clock", "store"} : FetchErr(c, kind)
    \/ \E c \in Callers : CallerSave(c, TRUE)
    \/ Tick

\* acquire_lock calls issued one at a time, each message persisted before the
\* next call begins
SerialSpec == SuInit /\ [][SerialNext]_vars

RouterNext ==
    \/ \E r \in Routers, item \in Items, built, ok \in BOOLEAN :
           RedirectDataItem(r, item, built, ok)
    \/ \E r \in Routers, ok \in BOOLEAN : GetAllSchedulers(r, ok)
    \/ \E r \in Routers, ok \in BOOLEAN : SaveProcessScheduler(r, ok)
    \/ \E r \in Routers, ok \in BOOLEAN : UpdateScheduler(r, ok)
    \/ \E ok \in BOOLEAN : InitSchedulers(ok)
    \/ \E ok \in BOOLEAN : LookupScheduler(ok)
    \/ \E ok \in BOOLEAN : SaveScheduler(ok)

\* concurrent redirect_data_item calls and init_schedulers
RouterSpec == Init /\ [][RouterNext]_vars

\* no redirect_data_item call, no init_schedulers run and no lookup call is
\* under way
RouterQuiet ==
    /\ \A r \in Routers : rpc[r] = "idle"
    /\ bpc \in BootDone
    /\ lookup = NoLookup

\* a redirect_data_item call that starts when nothing else is running
RedirectAlone(r, item, built, ok) ==
    /\ RouterQuiet
    /\ RedirectDataItem(r, item, built, ok)

\* an init_schedulers run that starts when nothing else is running
InitSchedulersAlone(ok) ==
    /\ RouterQuiet
    /\ InitSchedulers(ok)

RouterSerialNext ==
    \/ \E r \in Routers, item \in Items, built, ok \in BOOLEAN :
           RedirectAlone(r, item, built, ok)
    \/ \E r \in Routers, ok \in BOOLEAN : GetAllSchedulers(r, ok)
    \/ \E r \in Routers, ok \in BOOLEAN : SaveProcessScheduler(r, ok)
    \/ \E r \in Routers, ok \in BOOLEAN : UpdateScheduler(r, ok)
    \/ \E ok \in BOOLEAN : InitSchedulersAlone(ok)
    \/ \E ok \in BOOLEAN : LookupScheduler(ok)
    \/ \E ok \in BOOLEAN : SaveScheduler(ok)

\* router operations issued one at a time
RouterSerialSpec == Init /\ [][RouterSerialNext]_vars

\* the task whose redirect_data_item calls fill the store for the lookups
Assigner == "r1"

LookupNext ==
    \/ \E item \in Items, built, ok \in BOOLEAN :
           RedirectAlone(Assigner, item, built, ok)
    \/ \E ok \in BOOLEAN : GetAllSchedulers(Assigner, ok)
    \/ \E ok \in BOOLEAN : SaveProcessScheduler(Assigner, ok)
    \/ \E ok \in BOOLEAN : UpdateScheduler(Assigner, ok)
    \/ \E ok \in BOOLEAN : InitSchedulersAlone(ok)
    \/ \E ok \in BOOLEAN : LookupScheduler(ok)
    \/ \E ok \in BOOLEAN : SaveScheduler(ok)
    \/ \E process_id \in ItemIds \cup {NoId}, ok \in BOOLEAN :
           RouterQuiet /\ RedirectProcessId(process_id, ok)
    \/ \E tx_id \in ItemIds, process_id \in ItemIds \cup {NoId},
          ok_first, ok \in BOOLEAN :
           RouterQuiet /\ RedirectTxId(tx_id, process_id, ok_first, ok)
    \/ LookupReturn

\* router operations issued one at a time, the lookups redirect_process_id
\* and redirect_tx_id among them, against the store that one task's
\* redirect_data_item calls and init_schedulers fill
LookupSpec == Init /\ [][LookupNext]_vars

(***************************************************************************)
(* Properties of the sequencer                                             *)
(***************************************************************************)
\* the persisted log of a process, oldest first
Log(p) == SelectSeq(messages, LAMBDA msg : msg.process_id = p)

\* C1: when acquire calls for a process are issued one at a time and each
\* message is persisted before the next call, the i-th persisted message of
\* the process has nonce i (from 0) and hash_chain H(previous hash_chain, m_i),
\* the first one H(process id, m_0).
C1_SerialNoncesAndChain ==
    \A p \in ProcIds :
        \A i \in 1..Len(Log(p)) :
            /\ Log(p)[i].nonce = i - 1
            /\ Log(p)[i].hash_chain =
                   gen_hash_chain(IF i = 1 THEN p ELSE Log(p)[i-1].hash_chain,
                                  Log(p)[i].message_id)

\* C2: under any interleaving of callers that acquire and then persist, the
\* nonces persisted for a process are exactly 0..N-1, none of them twice.
C2_PersistedNoncesExact ==
    \A p \in ProcIds :
        /\ {Log(p)[i].nonce : i \in 1..Len(Log(p))} = 0..(Len(Log(p)) - 1)
        /\ \A i, j \in 1..Len(Log(p)) : Log(p)[i].nonce = Log(p)[j].nonce => i = j

\* C3: a caller whose acquire returned successfully and that has not saved its
\* message yet still holds the exclusive region of its process.
C3_RegionHeldUntilSaved ==
    \A c \in Callers : pc[c] = "returned" => mutex[LockKey(cid[c])] = c

\* a task that is inside acquire_lock
InAcquire(c) == pc[c] \in {"entry", "lock", "fetch"}

\* the next step of the task's acquire_lock call that returns a value
AcquireStep(c) == Entry(c) \/ Lock(c) \/ FetchOk(c)

\* C4: an acquire call for process Q can always take its next step unless
\* another call for the same Q is inside Q's region: callers that hold or wait
\* for the region of a different process never block it.
C4_DistinctProcessesIndependent ==
    \A c \in Callers :
        (/\ InAcquire(c)
         /\ \A d \in Callers \ {c} : ~(pc[d] = "fetch" /\ cid[d] = cid[c]))
        => ENABLED AcquireStep(c)

\* two calls for different processes are inside their regions at once
C4_Witness ==
    \E c, d \in Callers :
        /\ pc[c] = "fetch" /\ pc[d] = "fetch" /\ cid[c] # cid[d]

\* C5: when the Data Store read inside acquire fails, the call returns an
\* error, every cached ScheduleInfo and the store are as before, and the caller
\* holds no region afterwards.
C5_StoreErrorReleases ==
    [][\A c \in Callers :
          (pc[c] = "fetch" /\ pc'[c] = "err_store")
          => /\ info' = info
             /\ messages' = messages
             /\ mutex[LockKey(cid[c])] = c
             /\ \A k \in ProcIds : mutex'[k] # c]_vars

\* a call failed on the store read while a computed ScheduleInfo was cached,
\* and a later call is inside a region
C5_Witness ==
    \E c, d \in Callers :
        /\ pc[c] = "err_store"
        /\ pc[d] = "fetch"
        /\ \E k \in ProcIds : info[k] # NewScheduleInfo

\* the values the next message of process p with id m is to carry
NextOf(p, m) ==
    LET latest == get_latest_message(p)
    IN  IF Len(latest) > 0
        THEN [nonce |-> latest[1].nonce + 1,
              hash_chain |-> gen_hash_chain(latest[1].hash_chain, m)]
        ELSE [nonce |-> 0, hash_chain |-> gen_hash_chain(p, m)]

\* C6: the nonce and hash_chain acquire(P, m) computes are those that follow
\* the latest persisted message of P.
C6_KeyedByProcess ==
    [][\A c \in Callers :
          (pc[c] = "fetch" /\ pc'[c] = "returned" /\ cmsg[c] # NoMsg)
          => /\ info'[LockKey(cid[c])].nonce = NextOf(cid[c], cmsg[c]).nonce
             /\ info'[LockKey(cid[c])].hash_chain
                    = NextOf(cid[c], cmsg[c]).hash_chain]_vars

\* C7 as stated: acquire(P, None) yields epoch 0, nonce 0, the empty string as
\* hash_chain and the current time, without a Data Store read.
C7_NoneYieldsEmptyHash ==
    [][\A c \in Callers :
          (pc[c] = "fetch" /\ pc'[c] = "returned" /\ cmsg[c] = NoMsg)
          => /\ info'[LockKey(cid[c])] =
                    [epoch |-> 0, nonce |-> 0, hash_chain |-> "",
                     timestamp |-> now]
             /\ ~readStore'[c]]_vars

\* C7 amended: acquire(P, None) yields epoch 0, nonce 0, the placeholder
\* "wont be used" as hash_chain and the current time, without a Data Store
\* read and whatever the store holds.
C7_NoneYieldsPlaceholder ==
    [][\A c \in Callers :
          (pc[c] = "fetch" /\ pc'[c] = "returned" /\ cmsg[c] = NoMsg)
          => /\ info'[LockKey(cid[c])] =
                    [epoch |-> 0, nonce |-> 0, hash_chain |-> "wont be used",
                     timestamp |-> now]
             /\ ~readStore'[c]]_vars

\* a timestamp-only call returned for a process that has persisted messages,
\* at a time after the start
C7_Witness ==
    \E c \in Callers :
        /\ pc[c] = "returned" /\ cmsg[c] = NoMsg
        /\ Len(Log(cid[c])) > 0
        /\ info[LockKey(cid[c])].timestamp > 0
        /\ info[LockKey(cid[c])].hash_chain = "wont be used"

\* C19: when a caller reads the ScheduleInfo through the handle its
\* acquire(P, m) call returned, it reads the nonce and hash_chain that its
\* own call computed.
C19_ReadsOwnValues ==
    [][\A c \in Callers :
          (pc[c] = "returned" /\ pc'[c] = "idle")
          => /\ info[LockKey(cid[c])].nonce = own[c].nonce
             /\ info[LockKey(cid[c])].hash_chain = own[c].hash_chain]_vars

\* no two calls for one process id are inside fetch_values, and the call
\* that is inside holds the mutex of the entry of that id
OneInsideFetch ==
    /\ \A c, d \in Callers :
           (pc[c] = "fetch" /\ pc[d] = "fetch" /\ cid[c] = cid[d]) => c = d
    /\ \A c \in Callers :
           pc[c] \in {"lock", "fetch"} => LockKey(cid[c]) \in locks
    /\ \A c \in Callers :
           pc[c] = "fetch" => mutex[LockKey(cid[c])] = c

\* C20: the lock table never loses an entry, an entry that is there is never
\* replaced by a new unlocked one, and at most one call per process id is
\* inside fetch_values at any time.
C20_OneMutexPerProcess ==
    [][/\ locks \subseteq locks'
       /\ \A k \in locks :
              (mutex[k] # NoCaller /\ mutex'[k] = NoCaller)
              => pc[mutex[k]] = "fetch" /\ pc'[mutex[k]] # "fetch"
       /\ OneInsideFetch']_vars

\* a second call for a process id waits at the mutex of the entry that the
\* first call, now inside fetch_values, has inserted
C20_Witness ==
    \E c, d \in Callers :
        /\ pc[c] = "fetch" /\ pc[d] = "lock" /\ cid[c] = cid[d]
        /\ mutex[LockKey(cid[c])] = c

\* positions of a task inside acquire_lock
InCall == {"entry", "lock", "fetch"}

\* the mutexes a task holds
HeldBy(c) == {k \in ProcIds : mutex[k] = c}

\* a task holds a mutex only inside fetch_values, and then only the mutex of
\* the process id of its call
HoldsOnlyInFetch ==
    \A c \in Callers :
        /\ Cardinality(HeldBy(c)) <= 1
        /\ pc[c] # "fetch" => HeldBy(c) = {}
        /\ pc[c] = "fetch" => HeldBy(c) = {LockKey(cid[c])}

\* C21: under fair scheduling, with every clock and Data Store read
\* returning, every acquire call returns, a value or an error; a call holds
\* at most one mutex, the one of its process id, and holds none once it has
\* returned.
C21_AcquireReturns ==
    /\ []HoldsOnlyInFetch
    /\ \A c \in Callers :
           (pc[c] \in InCall) ~> (pc[c] \in {"returned", "err_clock", "err_store"})

\* two calls for one process id have both returned, the one that had to wait
\* for the mutex included, and the mutex is free
C21_Witness ==
    /\ \A c \in Callers : pc[c] = "returned"
    /\ \A c, d \in Callers : cid[c] = cid[d]
    /\ \A k \in ProcIds : mutex[k] = NoCaller

(***************************************************************************)
(* Properties of the router                                                *)
(***************************************************************************)
\* the least process_count among the rows of v
LeastCount(v) ==
    CHOOSE n \in {v[i].process_count : i \in 1..Len(v)} :
        \A i \in 1..Len(v) : n <= v[i].process_count

\* the first row of v, in iteration order, that has the least process_count
FirstLeast(v) ==
    CHOOSE i \in 1..Len(v) :
        /\ v[i].process_count = LeastCount(v)
        /\ \A j \in 1..Len(v) : v[j].process_count = LeastCount(v) => i <= j

\* C8: a redirect_data_item call for a new, non-native Process item that runs
\* alone, finds a non-empty registry and returns Ok has selected the first
\* scheduler among those with the least process_count, has raised that
\* scheduler's persisted process_count by exactly 1, has persisted the
\* assignment of the new id to that scheduler's row id, has left every other
\* scheduler as it was, and returns the selected scheduler's url.
C8_LeastLoadedAssigned ==
    [][\A r \in Routers :
          (rpc[r] = "update" /\ rpc'[r] = "idle" /\ rres'[r] # "err_store")
          => LET i == FirstLeast(schedulers)
             IN  /\ rres'[r] = schedulers[i].url
                 /\ Len(schedulers') = Len(schedulers)
                 /\ schedulers'[i] =
                        [schedulers[i] EXCEPT !.process_count = @ + 1]
                 /\ \A j \in 1..Len(schedulers) :
                        j # i => schedulers'[j] = schedulers[j]
                 /\ assignments' = assignments
                 /\ assignments[Len(assignments)] =
                        [process_id |-> rid[r],
                         scheduler_row_id |-> schedulers[i].row_id]]_vars

\* a third process was assigned to the first of two schedulers that both had
\* one process
C8_Witness ==
    \E r \in Routers :
        /\ rpc[r] = "idle" /\ rres[r] = "ua"
        /\ Len(schedulers) = 2 /\ Len(assignments) = 3
        /\ schedulers[1].process_count = 2
        /\ schedulers[2].process_count = 1

\* a task between its read of all schedulers and its write of the chosen one
InAssignment(r) == rpc[r] \in {"save_ps", "update"}

\* C9: the read-all / pick-minimum / increment / persist sequences of two
\* concurrent redirect_data_item calls never interleave.
C9_AssignmentsSerialised ==
    \A r1, r2 \in Routers : (InAssignment(r1) /\ InAssignment(r2)) => r1 = r2

\* the number of ProcessScheduler rows that name the scheduler row
Assigned(row_id) ==
    Cardinality({j \in 1..Len(assignments) :
                    assignments[j].scheduler_row_id = row_id})

\* C10: once the bootstrap and router operations issued so far are over,
\* every scheduler's persisted process_count is the number of persisted
\* assignment rows that name it.
C10_CountEqualsAssignments ==
    RouterQuiet
    => \A i \in 1..Len(schedulers) :
           schedulers[i].process_count = Assigned(schedulers[i].row_id)

\* C11: after any sequence of redirect_data_item calls, also with Process
\* items that repeat an id, the store holds at most one ProcessScheduler
\* record per process id, and the process resolves to the scheduler of its
\* first record.
C11_OneAssignmentPerProcess ==
    /\ \A i, j \in 1..Len(assignments) :
           assignments[i].process_id = assignments[j].process_id => i = j
    /\ \A i \in 1..Len(assignments) :
           get_process_scheduler(assignments[i].process_id)[1].scheduler_row_id
               = assignments[CHOOSE j \in 1..Len(assignments) :
                     /\ assignments[j].process_id = assignments[i].process_id
                     /\ \A k \in 1..(j-1) :
                            assignments[k].process_id # assignments[i].process_id
                 ].scheduler_row_id

\* a value that stands for a returned Err
IsErr(res) ==
    res \in {"err_build", "err_type", "err_recreate", "err_store", "err_balance",
             "err_param", "err_locate"}

NativeMessage == [type |-> "Message", id |-> "msg", target |-> AoProcessId]

NativeProcess == [type |-> "Process", id |-> AoProcessId, target |-> ""]

\* the process id has a ProcessScheduler record
HasAssignment(p) == \E i \in 1..Len(assignments) : assignments[i].process_id = p

\* the url of the scheduler that the first record of the process names
UrlOf(p) ==
    LET first == CHOOSE i \in 1..Len(assignments) :
                     /\ assignments[i].process_id = p
                     /\ \A j \in 1..(i-1) : assignments[j].process_id # p
    IN  schedulers[CHOOSE k \in 1..Len(schedulers) :
            schedulers[k].row_id = assignments[first].scheduler_row_id].url

\* C12: in router mode a request for the native id is handled locally:
\* redirect_process_id of the native id, redirect_tx_id with the native id as
\* tx_id (whatever the hint) and redirect_data_item of a Message whose target
\* is the native id all return Ok(None), whatever the store holds or answers.
C12_NativeNeverRedirected ==
    [][mode = "router" =>
          /\ (lookup'.op = "process_id" /\ lookup'.id = AoProcessId)
             => \A ok \in BOOLEAN :
                    RedirectProcessId(AoProcessId, ok) => lookup'.res = "local"
          /\ (lookup'.op = "tx_id" /\ lookup'.id = AoProcessId)
             => \A ok_first, ok \in BOOLEAN :
                    RedirectTxId(AoProcessId, lookup'.hint, ok_first, ok)
                    => lookup'.res = "local"
          /\ \A r \in Routers, ok \in BOOLEAN :
                 RedirectDataItem(r, NativeMessage, TRUE, ok)
                 => rres'[r] = "local" /\ rpc'[r] = "idle"]_vars

\* redirect_tx_id of the native id returned Ok(None) although its hint has
\* an assignment, after a Message to the native id was kept local as well
C12_Witness ==
    /\ mode = "router"
    /\ lookup.op = "tx_id" /\ lookup.id = AoProcessId /\ lookup.res = "local"
    /\ lookup.hint # NoId /\ HasAssignment(lookup.hint)
    /\ rres[Assigner] = "local"

\* C13: in router mode a Process item whose id is the native id is answered
\* with an error and assigns nothing: no ProcessScheduler record for the
\* native id exists at any time and the call changes no count.
C13_NativeNeverAssigned ==
    [][mode = "router" =>
          /\ \A r \in Routers, built, ok \in BOOLEAN :
                 RedirectDataItem(r, NativeProcess, built, ok)
                 => /\ IsErr(rres'[r])
                    /\ rpc'[r] = "idle"
                    /\ assignments' = assignments
                    /\ schedulers' = schedulers
          /\ ~ HasAssignment(AoProcessId)']_vars

\* the native id was refused while the registry has a scheduler to assign to
C13_Witness ==
    /\ mode = "router"
    /\ \E r \in Routers : rres[r] = "err_recreate" /\ rpc[r] = "idle"
    /\ Len(schedulers) > 0

C17_NoRedirectOutsideRouterMode ==
    [][mode # "router" =>
          /\ \A process_id \in ItemIds \cup {NoId}, ok \in BOOLEAN :
                 RedirectProcessId(process_id, ok) => lookup'.res = "local"
          /\ \A tx_id \in ItemIds, hint \in ItemIds \cup {NoId},
                ok_first, ok \in BOOLEAN :
                 RedirectTxId(tx_id, hint, ok_first, ok) => lookup'.res = "local"
          /\ \A r \in Routers, item \in Items, built, ok \in BOOLEAN :
                 RedirectDataItem(r, item, built, ok)
                 => rres'[r] = "local" /\ rpc'[r] = "idle"
          /\ schedulers' = schedulers
          /\ assignments' = assignments]_vars

\* outside router mode redirect_process_id without a process id returned
\* Ok(None), as did a redirect_data_item call, on a store that has an
\* assignment
C17_Witness ==
    /\ mode # "router"
    /\ lookup.op = "process_id" /\ lookup.id = NoId /\ lookup.res = "local"
    /\ rres[Assigner] = "local"
    /\ Len(assignments) > 0

\* C18: in router mode the balancing step of a Process item that finds the
\* registry empty ends the call with the error "Could not balance
\* schedulers" and persists neither a ProcessScheduler nor a Scheduler.
C18_EmptyRegistryErrors ==
    [][\A r \in Routers :
          (Len(schedulers) = 0 /\ GetAllSchedulers(r, TRUE))
          => /\ rres'[r] = "err_balance"
             /\ rpc'[r] = "idle"
             /\ assignments' = assignments
             /\ schedulers' = schedulers]_vars

\* a Process item was answered with the balancing error and the store has
\* no record
C18_Witness ==
    /\ mode = "router"
    /\ \E r \in Routers : rres[r] = "err_balance" /\ rpc[r] = "idle"
    /\ Len(assignments) = 0

\* the urls of the list
Listed == {SchedulerList[i] : i \in 1..Len(SchedulerList)}

\* the Scheduler rows of a url in a registry
RowsOf(registry, url) == {k \in 1..Len(registry) : registry[k].url = url}

\* every url of the list has exactly one row in the registry
AllListed(registry) == \A u \in Listed : Cardinality(RowsOf(registry, u)) = 1

\* init_schedulers takes a step
BootStep == bpc' # bpc \/ bidx' # bidx

\* C14: init_schedulers is idempotent. No url ever has two rows, also when
\* the list names it twice; a row that a run inserts is appended with
\* process_count 0; when a run returns Ok every url of the list has exactly
\* one row; and a run over a registry that already has a row for every url
\* of the list inserts nothing and leaves the store as it is.
C14_BootstrapIdempotent ==
    [][/\ \A u \in Listed : Cardinality(RowsOf(schedulers', u)) <= 1
       /\ Len(schedulers') # Len(schedulers)
          => /\ bpc = "save"
             /\ schedulers' = Append(schedulers, schedulers'[Len(schedulers')])
             /\ schedulers'[Len(schedulers')].process_count = 0
             /\ schedulers'[Len(schedulers')].url = SchedulerList[bidx]
       /\ bpc' = "ok" => AllListed(schedulers')
       /\ AllListed(schedulers) => AllListed(schedulers')
       /\ (AllListed(schedulers) /\ BootStep)
          => /\ schedulers' = schedulers
             /\ assignments' = assignments
             /\ bpc' # "save"]_vars

\* a run that began after processes were assigned is at the last entry of
\* the list, a url the list names for the second time, and every url has
\* its row
C14_Witness ==
    /\ bpc = "lookup" /\ bidx = Len(SchedulerList)
    /\ \E i \in 1..(bidx - 1) : SchedulerList[i] = SchedulerList[bidx]
    /\ AllListed(schedulers)
    /\ Len(assignments) > 0

\* C15: init_schedulers inserts a url only when its lookup found no row; a
\* lookup that fails otherwise and an insert that fails end the run with an
\* error at that url, the rows inserted before stay, and the failed run
\* inserts nothing more.
C15_BootstrapStopsAtError ==
    [][/\ (bpc = "lookup" /\ bpc' = "save")
          => RowsOf(schedulers, SchedulerList[bidx]) = {}
       /\ LookupScheduler(FALSE)
          => bpc' = "err_lookup" /\ schedulers' = schedulers
       /\ SaveScheduler(FALSE)
          => bpc' = "err_save" /\ schedulers' = schedulers
       /\ bpc \in {"err_lookup", "err_save"}
          => /\ Len(schedulers') = Len(schedulers)
             /\ bpc' # "ok"
             /\ bpc' \in {"lookup", "save"} => (bpc' = "lookup" /\ bidx' = 1)
       /\ Len(schedulers') >= Len(schedulers)
       /\ \A k \in 1..Len(schedulers) :
              schedulers'[k].url = schedulers[k].url]_vars

\* a run has ended with an error at a lookup after the first url of the list
\* was inserted; the second url has no row
C15_Witness ==
    /\ bpc = "err_lookup"
    /\ Len(schedulers) = 1
    /\ schedulers[1].url = SchedulerList[1]
    /\ RowsOf(schedulers, SchedulerList[2]) = {}
====
